---- MODULE Spec2Model ----
(***************************************************************************)
(* Model of src/app.py: the POST /analyze_s3_images handler.               *)
(*                                                                         *)
(* One request is followed from the parsed JSON body to its response.      *)
(* The handler is cut at its external calls (list_objects_v2, get_object,  *)
(* the chat completion), whose results the environment chooses.            *)
(* Strings the code inspects character by character (object keys) are      *)
(* sequences of one-character strings.                                     *)
(***************************************************************************)
EXTENDS Integers, Sequences, FiniteSets, TLC

VARIABLES
  data,                 \* request.get_json(force=True)
  bucket_name,          \* os.getenv('AWS_BUCKET_NAME')
  pc,                   \* position of the handler
  member_id,            \* local member_id after extraction
  retrip_id,            \* local retrip_id after extraction
  stored,               \* keys the bucket holds under the prefix, in listing order
  s3_objects,           \* response.get('Contents', []) of the one listing call
  idx,                  \* position of the for loop in s3_objects
  processed_image_urls, \* local list
  failed_images_info,   \* local list
  storage_calls,        \* calls made on s3_client, with their results
  inference_calls,      \* calls of client.chat.completions.create, with results
  response              \* what the handler returned

vars == <<data, bucket_name, pc, member_id, retrip_id, stored, s3_objects, idx,
          processed_image_urls, failed_images_info, storage_calls,
          inference_calls, response>>

----------------------------------------------------------------------------
(* Bounds of the model *)

\* most keys the bucket holds under one prefix
MaxStored == 4

\* most keys one list_objects_v2 call returns (1000 at the storage service)
PageSize == 3

----------------------------------------------------------------------------
(* Values *)

\* Python's None
NoneV == "None"

\* truth value of a str-or-None: None and '' are falsy
Falsy(v) == v = NoneV \/ v = ""

Min(a, b) == IF a < b THEN a ELSE b

Range(s) == {s[i] : i \in 1..Len(s)}

----------------------------------------------------------------------------
(* String functions of the keys *)

\* str.lower() on one character
LowerChar(c) ==
  CASE c = "J" -> "j"
    [] c = "P" -> "p"
    [] c = "G" -> "g"
    [] OTHER -> c

\* str.lower()
Lower(s) == [i \in 1..Len(s) |-> LowerChar(s[i])]

\* str.rfind(ch), 1-based; 0 when ch does not occur
RFind(s, ch) ==
  LET hits == {i \in 1..Len(s) : s[i] = ch}
  IN IF hits = {} THEN 0 ELSE CHOOSE i \in hits : \A j \in hits : j <= i

\* str.endswith('/')
EndsWithSlash(key) == Len(key) > 0 /\ key[Len(key)] = "/"

\* os.path.splitext(p): <<root, ext>>. The extension starts at the last dot
\* after the last separator, unless only dots precede it in the file name.
splitext(p) ==
  LET sepIndex == RFind(p, "/")
      dotIndex == RFind(p, ".")
  IN IF dotIndex > sepIndex
        /\ \E j \in (sepIndex + 1)..(dotIndex - 1) : p[j] # "."
     THEN <<SubSeq(p, 1, dotIndex - 1), SubSeq(p, dotIndex, Len(p))>>
     ELSE <<p, <<>>>>

----------------------------------------------------------------------------
(* The request body *)

\* A wrapper object ('request' or 'body'): whether the key is in data, and
\* what .get('memberId') and .get('retripId') give on its value.
Wrapper(m, r) ==
  {[present |-> FALSE, memberId |-> NoneV, retripId |-> NoneV]}
  \cup [present : {TRUE}, memberId : {NoneV, m}, retripId : {NoneV, r}]

\* The JSON bodies considered. The three places carry different ids, so the
\* ids the handler ends up with tell where it took them from.
Requests ==
  [memberId : {NoneV, "a"}, retripId : {NoneV, "x"},
   request : Wrapper("b", "y"), body : Wrapper("c", "z")]

\* `not data`: the parsed body is an empty object
IsEmptyBody(d) ==
  /\ d.memberId = NoneV
  /\ d.retripId = NoneV
  /\ ~d.request.present
  /\ ~d.body.present

\* lines 160-175: the ids, from the top level, else from 'request', else from
\* 'body' (if / elif on `not member_id`)
ExtractIds(d) ==
  IF Falsy(d.memberId) /\ d.request.present
  THEN [member_id |-> d.request.memberId, retrip_id |-> d.request.retripId]
  ELSE IF Falsy(d.memberId) /\ d.body.present
  THEN [member_id |-> d.body.memberId, retrip_id |-> d.body.retripId]
  ELSE [member_id |-> d.memberId, retrip_id |-> d.retripId]

\* lines 154-188, with the bucket check first
ValidationBucketFirst(d, bucket) ==
  IF IsEmptyBody(d) THEN "empty"
  ELSE IF Falsy(bucket) THEN "no_bucket"
  ELSE IF Falsy(ExtractIds(d).member_id) \/ Falsy(ExtractIds(d).retrip_id)
  THEN "missing_ids"
  ELSE "ok"

\* lines 154-188: the order of the checks that end a request before any
\* storage call
Validation(d, bucket) ==
  IF IsEmptyBody(d) THEN "empty"
  ELSE IF Falsy(ExtractIds(d).member_id) \/ Falsy(ExtractIds(d).retrip_id)
  THEN "missing_ids"
  ELSE IF Falsy(bucket) THEN "no_bucket"
  ELSE "ok"

\* line 184: f"{member_id}/{retrip_id}/"
s3_folder_prefix == <<member_id, "/", retrip_id, "/">>

----------------------------------------------------------------------------
(* Responses: jsonify(body), status *)

NoResponse == [status |-> 0, body |-> [pending |-> TRUE]]

Responded == response.status # 0

HasField(r, f) == f \in DOMAIN r.body

Init ==
  /\ data \in Requests
  /\ bucket_name \in {NoneV, "bucket"}
  /\ pc = "received"
  /\ member_id = NoneV
  /\ retrip_id = NoneV
  /\ stored = <<>>
  /\ s3_objects = <<>>
  /\ idx = 1
  /\ processed_image_urls = <<>>
  /\ failed_images_info = <<>>
  /\ storage_calls = <<>>
  /\ inference_calls = <<>>
  /\ response = NoResponse

\* return jsonify(body), status
Return(status, body) ==
  /\ response' = [status |-> status, body |-> body]
  /\ pc' = "done"

\* lines 153-155
RejectEmptyBody ==
  /\ pc = "received"
  /\ Validation(data, bucket_name) = "empty"
  /\ Return(400, [error |-> "request body is not JSON or is empty"])
  /\ UNCHANGED <<data, bucket_name, member_id, retrip_id, stored, s3_objects,
                 idx, processed_image_urls, failed_images_info, storage_calls,
                 inference_calls>>

\* lines 160-178
RejectMissingIds ==
  /\ pc = "received"
  /\ Validation(data, bucket_name) = "missing_ids"
  /\ member_id' = ExtractIds(data).member_id
  /\ retrip_id' = ExtractIds(data).retrip_id
  /\ Return(400, [error |-> "memberId and retripId are required"])
  /\ UNCHANGED <<data, bucket_name, stored, s3_objects, idx,
                 processed_image_urls, failed_images_info, storage_calls,
                 inference_calls>>

\* lines 160-188
RejectMissingBucket ==
  /\ pc = "received"
  /\ Validation(data, bucket_name) = "no_bucket"
  /\ member_id' = ExtractIds(data).member_id
  /\ retrip_id' = ExtractIds(data).retrip_id
  /\ Return(500, [error |-> "AWS_BUCKET_NAME is not set"])
  /\ UNCHANGED <<data, bucket_name, stored, s3_objects, idx,
                 processed_image_urls, failed_images_info, storage_calls,
                 inference_calls>>

\* lines 160-191: the request passes validation
AcceptRequest ==
  /\ pc = "received"
  /\ Validation(data, bucket_name) = "ok"
  /\ member_id' = ExtractIds(data).member_id
  /\ retrip_id' = ExtractIds(data).retrip_id
  /\ pc' = "listing"
  /\ UNCHANGED <<data, bucket_name, stored, s3_objects, idx,
                 processed_image_urls, failed_images_info, storage_calls,
                 inference_calls, response>>

----------------------------------------------------------------------------
(* The storage service *)

\* File names a trip folder may hold, in the order the service lists keys
\* (UTF-8 byte order): "" (the folder's own marker), ".jpg", "a.JPG", "a.txt",
\* "b", "c.d/e", "f.heic"
RelKeys ==
  << <<>>,
     <<".", "j", "p", "g">>,
     <<"a", ".", "J", "P", "G">>,
     <<"a", ".", "t", "x", "t">>,
     <<"b">>,
     <<"c", ".", "d", "/", "e">>,
     <<"f", ".", "h", "e", "i", "c">> >>

\* the keys of the chosen file names under the prefix, in listing order
KeysUnder(prefix, chosen) ==
  LET picked == SelectSeq([i \in 1..Len(RelKeys) |-> i], LAMBDA i : i \in chosen)
  IN [n \in 1..Len(picked) |-> prefix \o RelKeys[picked[n]]]

\* what the bucket may hold under the prefix
Folders == {c \in SUBSET (1..Len(RelKeys)) : Cardinality(c) <= MaxStored}

\* one list_objects_v2 call: 'Contents' holds the first keys only, and the
\* rest is announced by IsTruncated / NextContinuationToken
FirstPage(keys) ==
  [Contents |-> [n \in 1..Min(Len(keys), PageSize) |-> [Key |-> keys[n]]],
   IsTruncated |-> Len(keys) > PageSize]

\* what get_object and the image library do with the object of a key:
\* the first two are raised by get_object, the next two by Image.open /
\* convert / save on the bytes read, the last is a readable image
BlobKinds ==
  {"NoCredentialsError", "ClientError", "UnidentifiedImageError", "Exception",
   "image"}

\* lines 123-142, download_image_from_s3: a stream, or None on any exception
Downloaded(blob) == blob \notin {"NoCredentialsError", "ClientError"}

\* lines 225-229: the payload made from the image stored at key
DataUrl(key) == <<"data:image/jpeg;base64,", key>>

----------------------------------------------------------------------------
(* Listing: lines 193-200 and the handlers of lines 318-323 *)

\* list_objects_v2 raises NoCredentialsError
ListRaisesNoCredentials ==
  /\ pc = "listing"
  /\ storage_calls' = Append(storage_calls,
       [op |-> "list_objects_v2", key |-> s3_folder_prefix,
        result |-> "NoCredentialsError"])
  /\ Return(500, [error |-> "AWS credentials are not set"])
  /\ UNCHANGED <<data, bucket_name, member_id, retrip_id, stored, s3_objects,
                 idx, processed_image_urls, failed_images_info,
                 inference_calls>>

\* list_objects_v2 raises ClientError
ListRaisesClientError ==
  /\ pc = "listing"
  /\ storage_calls' = Append(storage_calls,
       [op |-> "list_objects_v2", key |-> s3_folder_prefix,
        result |-> "ClientError"])
  /\ Return(500, [error |-> "S3 client error"])
  /\ UNCHANGED <<data, bucket_name, member_id, retrip_id, stored, s3_objects,
                 idx, processed_image_urls, failed_images_info,
                 inference_calls>>

\* lines 195-200: nothing under the prefix
ListEmpty ==
  /\ pc = "listing"
  /\ stored' = <<>>
  /\ s3_objects' = FirstPage(<<>>).Contents
  /\ storage_calls' = Append(storage_calls,
       [op |-> "list_objects_v2", key |-> s3_folder_prefix, result |-> "ok"])
  /\ Return(200, [message |-> <<"no images in folder", s3_folder_prefix>>])
  /\ UNCHANGED <<data, bucket_name, member_id, retrip_id, idx,
                 processed_image_urls, failed_images_info, inference_calls>>

\* lines 195-207: the one listing call returns objects
ListObjects ==
  /\ pc = "listing"
  /\ \E chosen \in Folders \ {{}} :
       /\ stored' = KeysUnder(s3_folder_prefix, chosen)
       /\ s3_objects' = FirstPage(stored').Contents
  /\ storage_calls' = Append(storage_calls,
       [op |-> "list_objects_v2", key |-> s3_folder_prefix, result |-> "ok"])
  /\ processed_image_urls' = <<>>
  /\ failed_images_info' = <<>>
  /\ idx' = 1
  /\ pc' = "normalizing"
  /\ UNCHANGED <<data, bucket_name, member_id, retrip_id, inference_calls,
                 response>>

----------------------------------------------------------------------------
(* Normalization: one iteration of the loop of lines 208-239 *)

\* line 205
allowed_extensions ==
  { <<".", "p", "n", "g">>, <<".", "j", "p", "g">>, <<".", "j", "p", "e", "g">>,
    <<".", "g", "i", "f">>, <<".", "b", "m", "p">>,
    <<".", "h", "e", "i", "c">> }

\* line 213 without .lower()
FileExtAsWritten(key) == splitext(key)[2]

\* line 213: os.path.splitext(key)[1].lower()
file_ext(key) == Lower(splitext(key)[2])

\* what one iteration does with a key whose object behaves as blob:
\* whether get_object is called, and what is appended to the two lists
NoEffect == [fetch |-> FALSE, processed |-> <<>>, failed |-> <<>>]

\* the iteration, with a download failure leaving no record
ProcessKeyDropsDownloadFailure(key, blob) ==
  IF EndsWithSlash(key) THEN NoEffect
  ELSE IF file_ext(key) \notin allowed_extensions
  THEN [NoEffect EXCEPT !.failed =
          <<[id |-> key, reason |-> <<"unsupported file type", file_ext(key)>>]>>]
  ELSE IF ~Downloaded(blob) THEN [NoEffect EXCEPT !.fetch = TRUE]
  ELSE IF blob = "UnidentifiedImageError"
  THEN [NoEffect EXCEPT !.fetch = TRUE, !.failed =
          <<[id |-> key, reason |-> <<"image identification failed", blob>>]>>]
  ELSE IF blob = "Exception"
  THEN [NoEffect EXCEPT !.fetch = TRUE, !.failed =
          <<[id |-> key, reason |-> <<"unexpected error while encoding", blob>>]>>]
  ELSE [NoEffect EXCEPT !.fetch = TRUE, !.processed = <<DataUrl(key)>>]

\* the iteration, with directory markers treated like files
ProcessKeyKeepsDirectories(key, blob) ==
  IF file_ext(key) \notin allowed_extensions
  THEN [NoEffect EXCEPT !.failed =
          <<[id |-> key, reason |-> <<"unsupported file type", file_ext(key)>>]>>]
  ELSE IF ~Downloaded(blob)
  THEN [NoEffect EXCEPT !.fetch = TRUE, !.failed =
          <<[id |-> key, reason |-> <<"S3 download failed", NoneV>>]>>]
  ELSE IF blob = "UnidentifiedImageError"
  THEN [NoEffect EXCEPT !.fetch = TRUE, !.failed =
          <<[id |-> key, reason |-> <<"image identification failed", blob>>]>>]
  ELSE IF blob = "Exception"
  THEN [NoEffect EXCEPT !.fetch = TRUE, !.failed =
          <<[id |-> key, reason |-> <<"unexpected error while encoding", blob>>]>>]
  ELSE [NoEffect EXCEPT !.fetch = TRUE, !.processed = <<DataUrl(key)>>]

\* lines 209-239
ProcessKey(key, blob) ==
  IF EndsWithSlash(key) THEN NoEffect
  ELSE IF file_ext(key) \notin allowed_extensions
  THEN [NoEffect EXCEPT !.failed =
          <<[id |-> key, reason |-> <<"unsupported file type", file_ext(key)>>]>>]
  ELSE IF ~Downloaded(blob)
  THEN [NoEffect EXCEPT !.fetch = TRUE, !.failed =
          <<[id |-> key, reason |-> <<"S3 download failed", NoneV>>]>>]
  ELSE IF blob = "UnidentifiedImageError"
  THEN [NoEffect EXCEPT !.fetch = TRUE, !.failed =
          <<[id |-> key, reason |-> <<"image identification failed", blob>>]>>]
  ELSE IF blob = "Exception"
  THEN [NoEffect EXCEPT !.fetch = TRUE, !.failed =
          <<[id |-> key, reason |-> <<"unexpected error while encoding", blob>>]>>]
  ELSE [NoEffect EXCEPT !.fetch = TRUE, !.processed = <<DataUrl(key)>>]

\* the loop has gone through every listed object
LoopFinished == pc \in {"normalizing", "done"} /\ s3_objects # <<>>
                /\ idx > Len(s3_objects)

\* lines 208-239: the next object of the listing
NormalizeNext ==
  /\ pc = "normalizing"
  /\ idx <= Len(s3_objects)
  /\ \E blob \in BlobKinds :
       LET key == s3_objects[idx].Key
           did == ProcessKey(key, blob)
       IN /\ storage_calls' =
               IF did.fetch
               THEN Append(storage_calls,
                      [op |-> "get_object", key |-> key, result |-> blob])
               ELSE storage_calls
          /\ processed_image_urls' = processed_image_urls \o did.processed
          /\ failed_images_info' = failed_images_info \o did.failed
  /\ idx' = idx + 1
  /\ UNCHANGED <<data, bucket_name, pc, member_id, retrip_id, stored,
                 s3_objects, inference_calls, response>>

----------------------------------------------------------------------------
(* Analysis: lines 241-316 and the handler of lines 324-326 *)

\* line 241 as `if not processed_image_urls and not failed_images_info`
NothingProcessedNorFailed ==
  processed_image_urls = <<>> /\ failed_images_info = <<>>

\* line 241: `not processed_image_urls`
NothingProcessed == processed_image_urls = <<>>

\* lines 248-291: the instruction text
travel_analysis_prompt == "travel analysis prompt"

\* lines 88-91 with the image blocks put first
ContentMessagesImagesFirst(base64_data_urls, prompt_text) ==
  [n \in 1..Len(base64_data_urls) |->
     [type |-> "image_url", content |-> base64_data_urls[n]]]
  \o <<[type |-> "text", content |-> prompt_text]>>

\* lines 88-91: the text block, then one image block per payload
ContentMessages(base64_data_urls, prompt_text) ==
  <<[type |-> "text", content |-> prompt_text]>>
  \o [n \in 1..Len(base64_data_urls) |->
        [type |-> "image_url", content |-> base64_data_urls[n]]]

\* texts the model may answer with
JsonText == "{\"travel_analysis\": {\"mbti\": \"ISFJ\"}}"
PlainText == "I cannot analyze these images."
DeepText == "[[[[ ... nested deeper than the interpreter's recursion limit"

\* what client.chat.completions.create does: it raises, or it answers with
\* message.content (None, empty, or a text)
CompletionOutcomes ==
  {[raises |-> TRUE, content |-> NoneV]}
  \cup [raises : {FALSE}, content : {NoneV, "", JsonText, PlainText, DeepText}]

\* lines 85-109: the content, or None when the call raised
AnalyzeReturn(outcome) == IF outcome.raises THEN NoneV ELSE outcome.content

\* json.loads: the value, JSONDecodeError on text that is no JSON document,
\* RecursionError on nesting deeper than the recursion limit
json_loads(text) ==
  CASE text = JsonText ->
         [raised |-> "none", value |-> [travel_analysis |-> [mbti |-> "ISFJ"]]]
    [] text = DeepText -> [raised |-> "RecursionError", value |-> NoneV]
    [] OTHER -> [raised |-> "JSONDecodeError", value |-> NoneV]

\* lines 297-316 and 324-326: the response for what the analysis returned
AnalysisResponse(ret, failed) ==
  IF ~Falsy(ret)
  THEN CASE json_loads(ret).raised = "none" ->
              [status |-> 200,
               body |-> [travel_image_analysis |-> json_loads(ret).value,
                         failed_images_info |-> failed]]
         [] json_loads(ret).raised = "JSONDecodeError" ->
              [status |-> 500,
               body |-> [error |-> <<"GPT-4o response parsing failed">>,
                         raw_openai_response |-> ret,
                         failed_images_info |-> failed]]
         [] OTHER ->
              [status |-> 500,
               body |-> [error |-> <<"internal server error",
                                     json_loads(ret).raised>>]]
  ELSE [status |-> 500,
        body |-> [error |-> <<"image analysis failed">>,
                  failed_images_info |-> failed]]

\* lines 241-245: no image was normalized
NothingAnalyzable ==
  /\ pc = "normalizing"
  /\ idx > Len(s3_objects)
  /\ NothingProcessed
  /\ Return(200, [message |-> <<"no analyzable images in folder",
                               s3_folder_prefix>>,
                  failed_images_info |-> failed_images_info])
  /\ UNCHANGED <<data, bucket_name, member_id, retrip_id, stored, s3_objects,
                 idx, processed_image_urls, failed_images_info, storage_calls,
                 inference_calls>>

\* lines 248-316, 324-326: the one inference call and the response
Analyze ==
  /\ pc = "normalizing"
  /\ idx > Len(s3_objects)
  /\ ~NothingProcessed
  /\ \E outcome \in CompletionOutcomes :
       /\ inference_calls' = Append(inference_calls,
            [content |-> ContentMessages(processed_image_urls,
                                         travel_analysis_prompt),
             result |-> outcome])
       /\ response' = AnalysisResponse(AnalyzeReturn(outcome),
                                       failed_images_info)
  /\ pc' = "done"
  /\ UNCHANGED <<data, bucket_name, member_id, retrip_id, stored, s3_objects,
                 idx, processed_image_urls, failed_images_info, storage_calls>>

----------------------------------------------------------------------------

Next ==
  \/ RejectEmptyBody
  \/ RejectMissingIds
  \/ RejectMissingBucket
  \/ AcceptRequest
  \/ ListRaisesNoCredentials
  \/ ListRaisesClientError
  \/ ListEmpty
  \/ ListObjects
  \/ NormalizeNext
  \/ NothingAnalyzable
  \/ Analyze

Spec == Init /\ [][Next]_vars

----------------------------------------------------------------------------
(* Vocabulary of the properties, stated on the listing and the call logs *)

\* the keys the normalization loop goes through
ListedKeys == [n \in 1..Len(s3_objects) |-> s3_objects[n].Key]

\* the keys the loop has gone through so far
KeysDone == SubSeq(ListedKeys, 1, Min(idx - 1, Len(s3_objects)))

IsDirectoryMarker(key) == Len(key) > 0 /\ key[Len(key)] = "/"

\* the allow-list, by the lower-cased extension of the key
SupportedType(key) ==
  Lower(splitext(key)[2]) \in
    { <<".", "p", "n", "g">>, <<".", "j", "p", "g">>,
      <<".", "j", "p", "e", "g">>, <<".", "g", "i", "f">>,
      <<".", "b", "m", "p">>, <<".", "h", "e", "i", "c">> }

\* what the get_object calls made for a key returned
FetchResults(key) ==
  {storage_calls[n].result : n \in {m \in 1..Len(storage_calls) :
      storage_calls[m].op = "get_object" /\ storage_calls[m].key = key}}

NumFetches(key) ==
  Cardinality({m \in 1..Len(storage_calls) :
      storage_calls[m].op = "get_object" /\ storage_calls[m].key = key})

NumProcessed(key) ==
  Cardinality({n \in 1..Len(processed_image_urls) :
      processed_image_urls[n] = DataUrl(key)})

NumFailed(key) ==
  Cardinality({n \in 1..Len(failed_images_info) :
      failed_images_info[n].id = key})

\* the object of the key is a file of a supported type that downloads and
\* decodes
Normalizable(key) ==
  /\ ~IsDirectoryMarker(key)
  /\ SupportedType(key)
  /\ FetchResults(key) = {"image"}

\* the payloads, resp. the failed keys, the listing must give, in its order
ExpectedPayloads ==
  LET good == SelectSeq(KeysDone, Normalizable)
  IN [n \in 1..Len(good) |-> DataUrl(good[n])]

ExpectedFailedKeys ==
  SelectSeq(KeysDone,
            LAMBDA key : ~IsDirectoryMarker(key) /\ ~Normalizable(key))

FailedIds == [n \in 1..Len(failed_images_info) |-> failed_images_info[n].id]

----------------------------------------------------------------------------
(* C1 *)

\* C1: once the normalization loop has finished on a non-empty listing, every
\* key that does not end in '/' has exactly one entry, in processed_image_urls
\* or in failed_images_info and never in both, keys ending in '/' have none,
\* and the two lists together are as long as the number of such keys.
C1_EveryKeyAccountedOnce ==
  LoopFinished =>
    /\ \A n \in 1..Len(ListedKeys) :
         IF IsDirectoryMarker(ListedKeys[n])
         THEN NumProcessed(ListedKeys[n]) = 0 /\ NumFailed(ListedKeys[n]) = 0
         ELSE NumProcessed(ListedKeys[n]) + NumFailed(ListedKeys[n]) = 1
    /\ Len(processed_image_urls) + Len(failed_images_info)
         = Cardinality({n \in 1..Len(ListedKeys) :
                          ~IsDirectoryMarker(ListedKeys[n])})

\* a finished loop over a directory marker, a normalized key and a failed key
C1_Witness ==
  /\ LoopFinished
  /\ \E n \in 1..Len(ListedKeys) : IsDirectoryMarker(ListedKeys[n])
  /\ Len(processed_image_urls) = 1
  /\ Len(failed_images_info) = 1

----------------------------------------------------------------------------
(* C2 *)

\* no listed key is a file that normalizes
NoKeyNormalizes ==
  \A n \in 1..Len(ListedKeys) : ~Normalizable(ListedKeys[n])

\* C2: when the listing is non-empty and no key is normalized, the inference
\* call is never made, and the request ends with HTTP 200, the 'could not be
\* analyzed' message and the full failed_images_info list.
C2_NothingAnalyzableShortCircuits ==
  (LoopFinished /\ NoKeyNormalizes) =>
    /\ inference_calls = <<>>
    /\ pc = "done" =>
         /\ response.status = 200
         /\ HasField(response, "message")
         /\ response.body.message[1] = "no analyzable images in folder"
         /\ HasField(response, "failed_images_info")
         /\ response.body.failed_images_info = failed_images_info
         /\ FailedIds = ExpectedFailedKeys
         /\ ~HasField(response, "travel_image_analysis")

\* a request ended after a key of unsupported type and a failed download
C2_Witness ==
  /\ pc = "done"
  /\ LoopFinished
  /\ NoKeyNormalizes
  /\ \E n \in 1..Len(ListedKeys) :
       FetchResults(ListedKeys[n]) = {"ClientError"}
  /\ \E n \in 1..Len(ListedKeys) :
       ~IsDirectoryMarker(ListedKeys[n]) /\ ~SupportedType(ListedKeys[n])

----------------------------------------------------------------------------
(* C5 *)

\* no place of the body holds a memberId, or none holds a retripId
IdMissingEverywhere(d) ==
  \/ d.memberId = NoneV /\ d.request.memberId = NoneV /\ d.body.memberId = NoneV
  \/ d.retripId = NoneV /\ d.request.retripId = NoneV /\ d.body.retripId = NoneV

----------------------------------------------------------------------------
(* C8 *)

\* C8: the inference service is called at most once and only after the loop
\* has finished; a request with a normalized image that has ended made the
\* call; the call carries the instruction text first, then exactly the
\* normalized payloads in the order of their keys in the listing.
C8_OneInferenceCallInOrder ==
  /\ Len(inference_calls) <= 1
  /\ inference_calls # <<>> =>
       /\ LoopFinished
       /\ LET content == inference_calls[1].content
          IN /\ Len(content) = 1 + Len(ExpectedPayloads)
             /\ content[1] = [type |-> "text", content |-> travel_analysis_prompt]
             /\ \A n \in 1..Len(ExpectedPayloads) :
                  content[n + 1] =
                    [type |-> "image_url", content |-> ExpectedPayloads[n]]
  /\ (pc = "done" /\ LoopFinished /\ ExpectedPayloads # <<>>) =>
       Len(inference_calls) = 1

\* the call was made with two payloads whose keys have a failed key between
C8_Witness ==
  /\ pc = "done"
  /\ Len(inference_calls) = 1
  /\ Len(ListedKeys) = 3
  /\ Normalizable(ListedKeys[1])
  /\ ~Normalizable(ListedKeys[2])
  /\ Normalizable(ListedKeys[3])

----------------------------------------------------------------------------
(* C9 *)

\* C9: a request that listed objects ends only after the loop has gone through
\* all of them; every file of a supported type is fetched once whatever
\* happened to the keys before it; failed_images_info holds one record per
\* failed key, with the key as id, in listing order, and processed_image_urls
\* holds the payloads of the other files.
C9_ItemFailuresAreIsolated ==
  /\ (pc = "done" /\ s3_objects # <<>>) => idx > Len(s3_objects)
  /\ pc \in {"normalizing", "done"} =>
       /\ FailedIds = ExpectedFailedKeys
       /\ processed_image_urls = ExpectedPayloads
       /\ \A n \in 1..Len(KeysDone) :
            NumFetches(KeysDone[n]) =
              IF ~IsDirectoryMarker(KeysDone[n]) /\ SupportedType(KeysDone[n])
              THEN 1 ELSE 0

\* a download failed for want of credentials, the next key was rejected, and
\* the key after it was still fetched and normalized
C9_Witness ==
  /\ LoopFinished
  /\ Len(ListedKeys) = 3
  /\ FetchResults(ListedKeys[1]) = {"NoCredentialsError"}
  /\ ~Normalizable(ListedKeys[2])
  /\ Normalizable(ListedKeys[3])
  /\ Len(failed_images_info) = 2
  /\ failed_images_info[1].id = ListedKeys[1]

----------------------------------------------------------------------------
(* C10 *)

\* C10: a file whose lower-cased extension is outside the allow-list has
\* exactly one failure record, no payload, and no get_object call; a file
\* whose extension is in the allow-list in any letter case has no
\* 'unsupported file type' record.
C10_UnsupportedTypeRejectedBeforeFetch ==
  pc \in {"normalizing", "done"} =>
    \A n \in 1..Len(KeysDone) :
      LET key == KeysDone[n]
      IN ~IsDirectoryMarker(key) =>
           IF ~SupportedType(key)
           THEN /\ NumFailed(key) = 1
                /\ NumProcessed(key) = 0
                /\ NumFetches(key) = 0
           ELSE \A m \in 1..Len(failed_images_info) :
                  failed_images_info[m].id = key =>
                    failed_images_info[m].reason[1] # "unsupported file type"

\* an upper-case .JPG was normalized and a file without extension was rejected
C10_Witness ==
  /\ LoopFinished
  /\ \E n \in 1..Len(ListedKeys) :
       /\ splitext(ListedKeys[n])[2] = <<".", "J", "P", "G">>
       /\ NumProcessed(ListedKeys[n]) = 1
  /\ \E n \in 1..Len(ListedKeys) :
       /\ ~IsDirectoryMarker(ListedKeys[n])
       /\ splitext(ListedKeys[n])[2] = <<>>
       /\ NumFailed(ListedKeys[n]) = 1

----------------------------------------------------------------------------
(* C3 *)

Listed ==
  \E n \in 1..Len(storage_calls) :
    storage_calls[n].op = "list_objects_v2" /\ storage_calls[n].result = "ok"

\* C3: the keys the loop goes through are all the keys stored under the
\* prefix, however many there are.
C3_ListingDrained ==
  Listed => Range(ListedKeys) = Range(stored)

----------------------------------------------------------------------------
(* C4 *)

\* the ids are under 'body' only: not at the top level, and 'request' is
\* missing or holds none
IdsUnderBodyOnly(d) ==
  /\ d.memberId = NoneV /\ d.retripId = NoneV
  /\ d.request.memberId = NoneV /\ d.request.retripId = NoneV
  /\ d.body.present /\ d.body.memberId # NoneV /\ d.body.retripId # NoneV

\* C4: when the ids are under 'body' only, the handler uses them and does not
\* answer 400.
C4_BodyIdsUsed ==
  (pc # "received" /\ IdsUnderBodyOnly(data)) =>
    /\ member_id = data.body.memberId
    /\ retrip_id = data.body.retripId
    /\ response.status # 400

----------------------------------------------------------------------------
(* C6 *)

\* C6: text that does not parse as JSON gives 500 with raw_openai_response
\* equal to the text and no travel_image_analysis; a failed call or no text
\* gives 500 without raw_openai_response; a parsed text gives 200 with
\* travel_image_analysis equal to the parsed value.
C6_InferenceFailuresDistinguished ==
  (pc = "done" /\ inference_calls # <<>>) =>
    LET outcome == inference_calls[1].result
        text == IF outcome.raises THEN NoneV ELSE outcome.content
    IN IF text = NoneV \/ text = ""
       THEN /\ response.status = 500
            /\ ~HasField(response, "raw_openai_response")
            /\ ~HasField(response, "travel_image_analysis")
       ELSE IF json_loads(text).raised = "none"
       THEN /\ response.status = 200
            /\ HasField(response, "travel_image_analysis")
            /\ response.body.travel_image_analysis = json_loads(text).value
       ELSE /\ response.status = 500
            /\ HasField(response, "raw_openai_response")
            /\ response.body.raw_openai_response = text
            /\ ~HasField(response, "travel_image_analysis")

----------------------------------------------------------------------------
(* C7 *)

\* C7: every response of a request whose listing returned an object carries
\* failed_images_info, holding the records accumulated so far.
C7_FailedImagesInfoAlwaysIncluded ==
  (Responded /\ s3_objects # <<>>) =>
    /\ HasField(response, "failed_images_info")
    /\ response.body.failed_images_info = failed_images_info

====
